---- MODULE Spec2Model ----
(***************************************************************************)
(* TreeNodeService of ngx-material-tree-extensions: a nested tree of node  *)
(* objects, its flattened mirror and the insert / delete / clone / path /  *)
(* expansion operations.                                                   *)
(*                                                                         *)
(* Node objects are references 1..MaxNodes; 0 is null.  A node's children  *)
(* property is a sequence of references, or undefined (childrenSet).       *)
(* nodeMap[n] is the FlatNode the map holds for node n: its level, its     *)
(* expandable flag, and which of the FlatNode objects constructed for n it *)
(* is (object: 1 for the first).  The expansion model is keyed by node,    *)
(* standing for that FlatNode.                                             *)
(*                                                                         *)
(* MatTreeFlattener and FlatTreeControl belong to Angular Material; they   *)
(* are modelled as the service uses them: flattenNodes is the pre-order    *)
(* walk calling the transformer, the expansion model is a set of FlatNodes.*)
(*                                                                         *)
(* Spec       all operations; every node handed in to be inserted is a new *)
(*            object, so the structure is a forest.                        *)
(* SpecShared the structural operations with any node handed in, also one  *)
(*            the structure holds already.                                 *)
(* SpecForest the structural operations and the clones on more node        *)
(*            objects, every node handed in a new object.                  *)
(* SpecNotify all operations, with an observer of data$.                   *)
(* SpecReinsert the mutations and toggleNode, where the node handed to      *)
(*            insertChild is a new object or one deleted before.           *)
(* Inserting a node under its own descendant is left out of all: update()  *)
(* would not return from the flattener.                                    *)
(***************************************************************************)
EXTENDS Integers, Sequences, FiniteSets, TLC

\* ---------------------------------------------------------------- bounds
\* Node objects that may ever be created (by the consumer or by cloneDeep).
MaxNodes == 4
\* Node objects the consumer creates; also the most node objects of the
\* specifications that include the queries and the expansion operations.
MaxTreeNodes == 3
\* Longest root collection / children sequence an insertion may produce.
MaxLen == 2
\* Entries, over all collections, beyond one per node held: how often a
\* node may be inserted while it is held already (SpecShared).
MaxShared == 1

Null == 0
Nodes == 1..MaxNodes

VARIABLES
  created,      \* node objects 1..created exist
  data,         \* _data: the root collection
  children,     \* children[n]: n.children when defined
  childrenSet,  \* nodes whose `children` property is defined
  nodeMap,      \* nodeMap: node -> [level, expandable] of its FlatNode
  dataNodes,    \* treeControl.dataNodes: the flattened sequence (FlatNodes)
  expanded,     \* treeControl.expansionModel: the selected FlatNodes
  subscribed,   \* an observer has subscribed to data$
  received,     \* what the observer's callback saw during the last call
  last          \* the last call: operation, arguments, return value

vars == <<created, data, children, childrenSet, nodeMap, dataNodes, expanded,
          subscribed, received, last>>

\* ------------------------------------------------------- array primitives
Range(s) == {s[i] : i \in 1..Len(s)}

Max(a, b) == IF a > b THEN a ELSE b

\* Array.prototype.indexOf: 0-based index of the first element === x, or -1.
indexOf(s, x) ==
  IF \E i \in 1..Len(s) : s[i] = x
    THEN (CHOOSE i \in 1..Len(s) : s[i] = x /\ \A j \in 1..(i - 1) : s[j] # x) - 1
    ELSE -1

\* Array.prototype.splice(start, 0, item): a negative start counts from the
\* end (clamped at 0), a start beyond the end is clamped to the length.
spliceInsert(s, start, item) ==
  LET rel == IF start < 0 THEN Max(Len(s) + start, 0)
             ELSE IF start > Len(s) THEN Len(s) ELSE start
  IN SubSeq(s, 1, rel) \o <<item>> \o SubSeq(s, rel + 1, Len(s))

\* Array.prototype.splice(index, 1) for 0 <= index < length.
spliceRemove(s, index) == SubSeq(s, 1, index) \o SubSeq(s, index + 2, Len(s))

\* node.children as the flattener and the searches read it: nothing when
\* the property is undefined.
childrenOf(ch, cs, n) == IF n \in cs THEN ch[n] ELSE <<>>

\* Nodes reachable from n through children, n included.
RECURSIVE Reach(_, _, _)
Reach(ch, cs, n) ==
  {n} \cup UNION {Reach(ch, cs, c) : c \in Range(childrenOf(ch, cs, n))}

\* ------------------------------------------------------ structural queries
\* A _getParent that looks at parentNode's own children only.
_getParentShallow(ch, cs, node, parentNode) ==
  IF parentNode \in cs /\ node \in Range(ch[parentNode]) THEN parentNode ELSE Null

\* _getParent(node, parentNode): depth-first scan of parentNode's subtree,
\* returning at the first node whose children hold `node`.
RECURSIVE _getParent(_, _, _, _), scanChildren(_, _, _, _, _)
_getParent(ch, cs, node, parentNode) ==
  IF parentNode \in cs THEN scanChildren(ch, cs, node, parentNode, 1) ELSE Null

scanChildren(ch, cs, node, parentNode, i) ==
  IF i > Len(ch[parentNode]) THEN Null
  ELSE IF ch[parentNode][i] = node THEN parentNode
  ELSE LET childParentNode == _getParent(ch, cs, node, ch[parentNode][i])
       IN IF childParentNode # Null THEN childParentNode
          ELSE scanChildren(ch, cs, node, parentNode, i + 1)

RECURSIVE scanRoots(_, _, _, _, _)
scanRoots(d, ch, cs, node, i) ==
  IF i > Len(d) THEN Null
  ELSE LET parentNode == _getParent(ch, cs, node, d[i])
       IN IF parentNode # Null THEN parentNode
          ELSE scanRoots(d, ch, cs, node, i + 1)

getParent(d, ch, cs, node) == scanRoots(d, ch, cs, node, 1)

\* getNodePath: [node], then each getParent pushed, reversed at the end.
RECURSIVE pathUp(_, _, _, _)
pathUp(d, ch, cs, node) ==
  LET parentNode == getParent(d, ch, cs, node)
  IN IF parentNode = Null THEN <<node>>
     ELSE pathUp(d, ch, cs, parentNode) \o <<node>>

\* A getNodePath that leaves out the final reverse().
RECURSIVE pathDown(_, _, _, _)
pathDown(d, ch, cs, node) ==
  LET parentNode == getParent(d, ch, cs, node)
  IN IF parentNode = Null THEN <<node>>
     ELSE <<node>> \o pathDown(d, ch, cs, parentNode)

getNodePathUnreversed(d, ch, cs, node) == pathDown(d, ch, cs, node)

getNodePath(d, ch, cs, node) == pathUp(d, ch, cs, node)

\* -------------------------------------------------------------- flattening
isExpandable(ch, cs, n) == n \in cs /\ Len(ch[n]) > 0

\* MatTreeFlattener.flattenNodes with the accessors the constructor passes:
\* pre-order, one <<node, level>> per call of the transformer, children
\* visited when the flat node is expandable.
RECURSIVE flattenNode(_, _, _, _), flattenChildren(_, _, _, _, _)
flattenNode(ch, cs, n, level) ==
  <<  <<n, level>>  >> \o
  (IF isExpandable(ch, cs, n) THEN flattenChildren(ch, cs, ch[n], 1, level + 1)
   ELSE <<>>)

flattenChildren(ch, cs, s, i, level) ==
  IF i > Len(s) THEN <<>>
  ELSE flattenNode(ch, cs, s[i], level) \o flattenChildren(ch, cs, s, i + 1, level)

flattenNodes(d, ch, cs) == flattenChildren(ch, cs, d, 1, 0)

\* A transformer that hands back the FlatNode the map holds as it is.
transformerStale(nm, ch, cs, node, level) ==
  LET flat == [level |-> level, expandable |-> isExpandable(ch, cs, node),
               object |-> 1]
  IN IF node \in DOMAIN nm
       THEN nm
       ELSE (node :> flat) @@ nm

\* A transformer that constructs a FlatNode on every call.
transformerAlwaysNew(nm, ch, cs, node, level) ==
  LET expandable == isExpandable(ch, cs, node)
  IN IF node \in DOMAIN nm
       THEN [nm EXCEPT ![node] = [level |-> level, expandable |-> expandable,
                                  object |-> nm[node].object + 1]]
       ELSE (node :> [level |-> level, expandable |-> expandable,
                      object |-> 1]) @@ nm

\* transformer(node, level): the FlatNode of `node`, updated in place when
\* the map holds one, created and stored otherwise.
transformer(nm, ch, cs, node, level) ==
  LET expandable == isExpandable(ch, cs, node)
  IN IF node \in DOMAIN nm
       THEN [nm EXCEPT ![node].level = level, ![node].expandable = expandable]
       ELSE (node :> [level |-> level, expandable |-> expandable,
                      object |-> 1]) @@ nm

RECURSIVE transformAll(_, _, _, _, _)
transformAll(nm, ch, cs, calls, i) ==
  IF i > Len(calls) THEN nm
  ELSE transformAll(transformer(nm, ch, cs, calls[i][1], calls[i][2]),
                    ch, cs, calls, i + 1)

\* An update() that notifies first and re-flattens afterwards.
updateNotifyFirst(d, ch, cs) ==
  LET calls == flattenNodes(d, ch, cs)
  IN /\ received' = IF subscribed
                       THEN <<[data |-> d, dataNodes |-> dataNodes]>>
                       ELSE <<>>
     /\ dataNodes' = [i \in 1..Len(calls) |-> calls[i][1]]
     /\ nodeMap' = transformAll(nodeMap, ch, cs, calls, 1)
     /\ UNCHANGED subscribed

\* update(): dataSource.data = _data re-flattens into treeControl.dataNodes
\* (every FlatNode coming from the transformer); then dataSubject.next(_data)
\* runs the observer's callback, which sees the root collection it is handed
\* and the flattened sequence as they are at that moment.
update(d, ch, cs) ==
  LET calls == flattenNodes(d, ch, cs)
  IN /\ dataNodes' = [i \in 1..Len(calls) |-> calls[i][1]]
     /\ nodeMap' = transformAll(nodeMap, ch, cs, calls, 1)
     /\ received' = IF subscribed
                       THEN <<[data |-> d, dataNodes |-> dataNodes']>>
                       ELSE <<>>
     /\ UNCHANGED subscribed

\* getFlatNode(node): the FlatNode object the map holds for node.
getFlatNode(nm, node) ==
  IF node \in DOMAIN nm THEN [node |-> node, object |-> nm[node].object]
  ELSE [node |-> Null, object |-> 0]

\* hasChildren(_, node) and isRoot(level, node) on the FlatNode of a node.
hasChildren(nm, flatNode) == nm[flatNode].expandable
isRoot(nm, flatNode) == nm[flatNode].level = 0

\* ------------------------------------------------------------------- calls
NoCall ==
  [op |-> "none", a |-> Null, b |-> Null, ret |-> Null, path |-> <<>>,
   k |-> 0, wasExpanded |-> FALSE, again |-> FALSE, pre |-> {},
   emitted |-> <<>>, result |-> FALSE]

\* Node arguments: an existing node object, or a new one (the next id).
Known == 1..created
Fresh == IF created < MaxTreeNodes THEN {created + 1} ELSE {}

\* Entries of all collections (the root and every children sequence).
RECURSIVE SumLen(_, _, _)
SumLen(ch, cs, n) ==
  IF n = 0 THEN 0 ELSE Len(childrenOf(ch, cs, n)) + SumLen(ch, cs, n - 1)

Held(d, ch, cs) == Range(d) \cup UNION {Range(childrenOf(ch, cs, n)) : n \in Nodes}

Shared(d, ch, cs) == Len(d) + SumLen(ch, cs, MaxNodes) - Cardinality(Held(d, ch, cs))

\* The inputs kept out: a node placed under its own descendant (the
\* flattener would not return), and structures beyond the bounds.
Admissible(d, ch, cs) ==
  /\ Len(d) <= MaxLen
  /\ \A n \in Nodes : Len(childrenOf(ch, cs, n)) <= MaxLen
  /\ \A n \in Nodes : \A c \in Range(childrenOf(ch, cs, n)) : n \notin Reach(ch, cs, c)
  /\ Shared(d, ch, cs) <= MaxShared

Init ==
  /\ created = 0
  /\ data = <<>>
  /\ children = [n \in Nodes |-> <<>>]
  /\ childrenSet = {}
  /\ nodeMap = <<>>
  /\ dataNodes = <<>>
  /\ expanded = {}
  /\ subscribed = FALSE
  /\ received = <<>>
  /\ last = NoCall

\* set data(treeTableNodes)
SetData(treeTableNodes) ==
  /\ data' = treeTableNodes
  /\ created' = IF Len(treeTableNodes) = 0 THEN created
                ELSE Max(created, treeTableNodes[1])
  /\ Admissible(data', children, childrenSet)
  /\ update(data', children, childrenSet)
  /\ last' = [NoCall EXCEPT !.op = "setData", !.emitted = <<data'>>]
  /\ UNCHANGED <<children, childrenSet, expanded>>

\* insertChild(parentNode, node) on the heap (ch, cs); ret is what the
\* caller hands back.
insertChild(opName, parentNode, node, ret, ch, cs) ==
  /\ parentNode \notin Reach(ch, cs, node)
  /\ childrenSet' = cs \cup {parentNode}
  /\ children' = [ch EXCEPT ![parentNode] =
                    Append(childrenOf(ch, cs, parentNode), node)]
  /\ Admissible(data, children', childrenSet')
  /\ update(data, children', childrenSet')
  /\ last' = [NoCall EXCEPT !.op = opName, !.a = parentNode, !.b = node,
                            !.ret = ret, !.emitted = <<data>>]
  /\ UNCHANGED <<data, expanded>>

InsertChild(parentNode, node) ==
  /\ insertChild("insertChild", parentNode, node, Null, children, childrenSet)
  /\ created' = Max(created, node)

\* _insertSibling(siblingNode, node, index): index 0 = before, 1 = after.
\* A parent getParent returns always has its children defined.
_insertSibling(opName, siblingNode, node, index, ret, ch, cs) ==
  LET parentNode == getParent(data, ch, cs, siblingNode)
  IN /\ IF parentNode # Null /\ parentNode \in cs
          THEN /\ parentNode \notin Reach(ch, cs, node)
               /\ children' = [ch EXCEPT ![parentNode] =
                     spliceInsert(ch[parentNode],
                                  indexOf(ch[parentNode], siblingNode) + index,
                                  node)]
               /\ data' = data
          ELSE /\ data' = spliceInsert(data, indexOf(data, siblingNode) + index, node)
               /\ children' = ch
     /\ childrenSet' = cs
     /\ Admissible(data', children', childrenSet')
     /\ update(data', children', childrenSet')
     /\ last' = [NoCall EXCEPT !.op = opName, !.a = siblingNode, !.b = node,
                               !.ret = ret, !.emitted = <<data'>>]
     /\ UNCHANGED expanded

\* An insertBefore that passes index 1.
InsertBeforeIndexOne(siblingNode, node) ==
  /\ _insertSibling("insertBefore", siblingNode, node, 1, Null, children, childrenSet)
  /\ created' = Max(created, node)

\* insertBefore(siblingNode, node)
InsertBefore(siblingNode, node) ==
  /\ _insertSibling("insertBefore", siblingNode, node, 0, Null, children, childrenSet)
  /\ created' = Max(created, node)

\* insertAfter(siblingNode, node)
InsertAfter(siblingNode, node) ==
  /\ _insertSibling("insertAfter", siblingNode, node, 1, Null, children, childrenSet)
  /\ created' = Max(created, node)

\* _delete(nodes, node) on the collection `owner` holds (0: the root): the
\* first index of node is spliced out; when there is none, every element
\* with a non-empty children sequence is searched in turn, to the end.
RECURSIVE _delete(_, _, _), deleteLoop(_, _, _, _)
_delete(st, owner, node) ==
  LET nodes == IF owner = Null THEN st.data ELSE st.children[owner]
      index == indexOf(nodes, node)
  IN IF index > -1
       THEN IF owner = Null
              THEN [st EXCEPT !.data = spliceRemove(nodes, index)]
              ELSE [st EXCEPT !.children[owner] = spliceRemove(nodes, index)]
       ELSE deleteLoop(st, nodes, 1, node)

deleteLoop(st, nodes, i, node) ==
  IF i > Len(nodes) THEN st
  ELSE LET _node == nodes[i]
       IN deleteLoop(IF _node \in childrenSet /\ Len(st.children[_node]) > 0
                       THEN _delete(st, _node, node) ELSE st,
                     nodes, i + 1, node)

\* delete(node)
Delete(node) ==
  LET st == _delete([data |-> data, children |-> children], Null, node)
  IN /\ data' = st.data
     /\ children' = st.children
     /\ update(data', children', childrenSet)
     /\ last' = [NoCall EXCEPT !.op = "delete", !.a = node, !.emitted = <<data'>>]
     /\ UNCHANGED <<created, childrenSet, expanded>>

\* getParent(node)
GetParent(node) ==
  /\ last' = [NoCall EXCEPT !.op = "getParent", !.a = node,
                            !.ret = getParent(data, children, childrenSet, node)]
  /\ received' = <<>>
  /\ UNCHANGED <<created, data, children, childrenSet, nodeMap, dataNodes, expanded,
                 subscribed>>

\* getNodePath(node)
GetNodePath(node) ==
  /\ last' = [NoCall EXCEPT !.op = "getNodePath", !.a = node,
                            !.path = getNodePath(data, children, childrenSet, node)]
  /\ received' = <<>>
  /\ UNCHANGED <<created, data, children, childrenSet, nodeMap, dataNodes, expanded,
                 subscribed>>

\* A clone that copies the node object only and keeps its children.
cloneDeepShallow(ch, cs, original, base) ==
  [node |-> base + 1,
   count |-> 1,
   children |-> [ch EXCEPT ![base + 1] = childrenOf(ch, cs, original)],
   childrenSet |-> IF original \in cs THEN cs \cup {base + 1} ELSE cs]

\* cloneDeep(original) with the new objects numbered from base + 1: every
\* node reachable from original is copied once, children mapped to copies.
cloneDeep(ch, cs, original, base) ==
  LET R == Reach(ch, cs, original)
      copy(r) == base + Cardinality({x \in R : x <= r})
      fresh == {copy(r) : r \in R}
      src(c) == CHOOSE r \in R : copy(r) = c
  IN [node |-> copy(original),
      count |-> Cardinality(R),
      children |-> [n \in Nodes |->
                      IF n \in fresh /\ src(n) \in cs
                        THEN [i \in 1..Len(ch[src(n)]) |-> copy(ch[src(n)][i])]
                        ELSE IF n \in fresh THEN <<>> ELSE ch[n]],
      childrenSet |-> cs \cup {c \in fresh : src(c) \in cs}]

CloneSize(original) == Cardinality(Reach(children, childrenSet, original))

\* cloneAsChild(originalNode, parentNode): clonedNode = cloneDeep(original);
\* insertChild(parentNode, cloneDeep(original)); return clonedNode.
CloneAsChild(originalNode, parentNode) ==
  /\ created + 2 * CloneSize(originalNode) <= MaxNodes
  /\ LET clonedNode == cloneDeep(children, childrenSet, originalNode, created)
         inserted == cloneDeep(clonedNode.children, clonedNode.childrenSet,
                               originalNode, created + clonedNode.count)
     IN /\ insertChild("cloneAsChild", parentNode, inserted.node, clonedNode.node,
                       inserted.children, inserted.childrenSet)
        /\ created' = created + 2 * clonedNode.count

\* cloneAsSiblingBefore(originalNode, siblingNode)
CloneAsSiblingBefore(originalNode, siblingNode) ==
  /\ created + CloneSize(originalNode) <= MaxNodes
  /\ LET clonedNode == cloneDeep(children, childrenSet, originalNode, created)
     IN /\ _insertSibling("cloneAsSiblingBefore", siblingNode, clonedNode.node, 0,
                          clonedNode.node, clonedNode.children, clonedNode.childrenSet)
        /\ created' = created + clonedNode.count

\* cloneAsSiblingAfter(originalNode, siblingNode)
CloneAsSiblingAfter(originalNode, siblingNode) ==
  /\ created + CloneSize(originalNode) <= MaxNodes
  /\ LET clonedNode == cloneDeep(children, childrenSet, originalNode, created)
     IN /\ _insertSibling("cloneAsSiblingAfter", siblingNode, clonedNode.node, 1,
                          clonedNode.node, clonedNode.children, clonedNode.childrenSet)
        /\ created' = created + clonedNode.count

\* ---------------------------------------------------------------- expansion
\* FlatTreeControl: isExpanded / expand / collapse on the expansion model.
isExpanded(exp, flatNode) == flatNode \in exp
expand(exp, flatNode) == exp \cup {flatNode}
collapse(exp, flatNode) == exp \ {flatNode}

\* A loop that expands the path and leaves every other node as it is.
RECURSIVE toggleLoopNoCollapse(_, _, _, _)
toggleLoopNoCollapse(exp, flatNode, nodePath, i) ==
  IF i > Len(dataNodes) THEN exp
  ELSE LET n == dataNodes[i]
       IN toggleLoopNoCollapse(IF n = flatNode \/ n \in Range(nodePath)
                                 THEN expand(exp, n) ELSE exp,
                               flatNode, nodePath, i + 1)

\* The loop of toggleNode over treeControl.dataNodes.
RECURSIVE toggleLoop(_, _, _, _)
toggleLoop(exp, flatNode, nodePath, i) ==
  IF i > Len(dataNodes) THEN exp
  ELSE LET n == dataNodes[i]
       IN toggleLoop(IF n = flatNode \/ n \in Range(nodePath)
                       THEN expand(exp, n) ELSE collapse(exp, n),
                     flatNode, nodePath, i + 1)

\* A toggleNode whose collapse branch also collapses the node's path; and
\* one whose expand branch expands flatNode alone.
toggleNodeCollapsePath(exp, flatNode) ==
  IF isExpanded(exp, flatNode)
    THEN exp \ Range(getNodePath(data, children, childrenSet, flatNode))
    ELSE toggleLoop(exp, flatNode,
                    getNodePath(data, children, childrenSet, flatNode), 1)

toggleNodeSelfOnly(exp, flatNode) ==
  IF isExpanded(exp, flatNode) THEN collapse(exp, flatNode)
  ELSE toggleLoop(exp, flatNode, <<flatNode>>, 1)

toggleNode(exp, flatNode) ==
  IF isExpanded(exp, flatNode) THEN collapse(exp, flatNode)
  ELSE toggleLoop(exp, flatNode,
                  getNodePath(data, children, childrenSet, flatNode), 1)

\* toggleNode(flatNode).  last.pre: the nodes of flatNode's path that were
\* expanded before the call (before the first of two calls in a row).
ToggleNode(flatNode) ==
  LET again == /\ last.op = "toggleNode" /\ last.a = flatNode
               /\ ~last.wasExpanded /\ ~last.again
               /\ isExpanded(expanded, flatNode)
  IN /\ expanded' = toggleNode(expanded, flatNode)
     /\ last' = [NoCall EXCEPT
            !.op = "toggleNode", !.a = flatNode,
            !.wasExpanded = isExpanded(expanded, flatNode),
            !.again = again,
            !.pre = IF again THEN last.pre
                    ELSE expanded \cap
                         Range(getNodePath(data, children, childrenSet, flatNode))]
     /\ received' = <<>>
     /\ UNCHANGED <<created, data, children, childrenSet, nodeMap, dataNodes, subscribed>>

\* An expandLevel that compares with >= instead of ==.
RECURSIVE expandLevelAndDeeper(_, _, _)
expandLevelAndDeeper(exp, level, i) ==
  IF i > Len(dataNodes) THEN exp
  ELSE expandLevelAndDeeper(IF nodeMap[dataNodes[i]].level >= level
                              THEN expand(exp, dataNodes[i]) ELSE exp,
                            level, i + 1)

\* The loop of expandLevel over treeControl.dataNodes.
RECURSIVE expandLevel(_, _, _)
expandLevel(exp, level, i) ==
  IF i > Len(dataNodes) THEN exp
  ELSE expandLevel(IF nodeMap[dataNodes[i]].level = level
                     THEN expand(exp, dataNodes[i]) ELSE exp,
                   level, i + 1)

\* expandLevel(level)
ExpandLevel(level) ==
  /\ expanded' = expandLevel(expanded, level, 1)
  /\ last' = [NoCall EXCEPT !.op = "expandLevel", !.k = level]
  /\ received' = <<>>
  /\ UNCHANGED <<created, data, children, childrenSet, nodeMap, dataNodes, subscribed>>

\* isParentExpanded(node)
isParentExpanded(d, ch, cs, nm, exp, node) ==
  LET parent == getParent(d, ch, cs, node)
  IN IF parent # Null /\ parent \in DOMAIN nm THEN isExpanded(exp, parent)
     ELSE FALSE

IsParentExpanded(node) ==
  /\ last' = [NoCall EXCEPT !.op = "isParentExpanded", !.a = node,
                            !.result = isParentExpanded(data, children, childrenSet,
                                                        nodeMap, expanded, node)]
  /\ received' = <<>>
  /\ UNCHANGED <<created, data, children, childrenSet, nodeMap, dataNodes, expanded,
                 subscribed>>

\* isSibling(node, sibling)
isSibling(d, ch, cs, node, sibling) ==
  getParent(d, ch, cs, node) = getParent(d, ch, cs, sibling)

IsSibling(node, sibling) ==
  /\ last' = [NoCall EXCEPT !.op = "isSibling", !.a = node, !.b = sibling,
                            !.result = isSibling(data, children, childrenSet,
                                                 node, sibling)]
  /\ received' = <<>>
  /\ UNCHANGED <<created, data, children, childrenSet, nodeMap, dataNodes, expanded,
                 subscribed>>

\* data$.subscribe(callback): the Subject keeps no value for a late
\* subscriber, so subscribing runs no callback.
Subscribe ==
  /\ ~subscribed
  /\ subscribed' = TRUE
  /\ received' = <<>>
  /\ last' = [NoCall EXCEPT !.op = "subscribe"]
  /\ UNCHANGED <<created, data, children, childrenSet, nodeMap, dataNodes, expanded>>

\* ----------------------------------------------------------- specifications
\* Spec: every node handed in to be inserted is a new object, so the
\* structure stays a forest.
Next ==
  \/ \E n \in Fresh \cup Range(data) : SetData(<<n>>)
  \/ SetData(<<>>)
  \/ \E p \in Known : \E n \in Fresh : InsertChild(p, n)
  \/ \E s \in Known : \E n \in Fresh : InsertBefore(s, n)
  \/ \E s \in Known : \E n \in Fresh : InsertAfter(s, n)
  \/ \E n \in Known : Delete(n)
  \/ \E o \in Known : \E p \in Known :
        created + 2 * CloneSize(o) <= MaxTreeNodes /\ CloneAsChild(o, p)
  \/ \E o \in Known : \E s \in Known :
        created + CloneSize(o) <= MaxTreeNodes /\ CloneAsSiblingBefore(o, s)
  \/ \E o \in Known : \E s \in Known :
        created + CloneSize(o) <= MaxTreeNodes /\ CloneAsSiblingAfter(o, s)
  \/ \E n \in Known : GetParent(n)
  \/ \E n \in Known : GetNodePath(n)
  \/ \E f \in DOMAIN nodeMap : ToggleNode(f)
  \/ \E k \in 0..(MaxTreeNodes - 1) : ExpandLevel(k)

Spec == Init /\ [][Next]_vars

\* SpecShared: the structural operations with any node object handed in,
\* also one the structure holds already.
NextShared ==
  \/ \E n \in Known \cup Fresh : SetData(<<n>>)
  \/ SetData(<<>>)
  \/ \E p \in Known : \E n \in Known \cup Fresh : InsertChild(p, n)
  \/ \E s \in Known : \E n \in Known \cup Fresh : InsertBefore(s, n)
  \/ \E s \in Known : \E n \in Known \cup Fresh : InsertAfter(s, n)
  \/ \E n \in Known : Delete(n)

SpecShared == Init /\ [][NextShared]_vars

\* SpecForest: the structural operations and the clones, every node handed
\* in a new object; cloneDeep may create node objects up to MaxNodes.
NextForest ==
  \/ \E n \in Fresh \cup Range(data) : SetData(<<n>>)
  \/ SetData(<<>>)
  \/ \E p \in Known : \E n \in Fresh : InsertChild(p, n)
  \/ \E s \in Known : \E n \in Fresh : InsertBefore(s, n)
  \/ \E s \in Known : \E n \in Fresh : InsertAfter(s, n)
  \/ \E n \in Known : Delete(n)
  \/ \E o \in Known : \E p \in Known : CloneAsChild(o, p)
  \/ \E o \in Known : \E s \in Known : CloneAsSiblingBefore(o, s)
  \/ \E o \in Known : \E s \in Known : CloneAsSiblingAfter(o, s)

SpecForest == Init /\ [][NextForest]_vars

\* SpecReinsert: the mutations and toggleNode; the node handed to
\* insertChild is a new object or one that was deleted and is held nowhere.
Detached == Known \ Held(data, children, childrenSet)

NextReinsert ==
  \/ \E n \in Fresh \cup Range(data) : SetData(<<n>>)
  \/ SetData(<<>>)
  \/ \E p \in Known : \E n \in Fresh \cup Detached : InsertChild(p, n)
  \/ \E s \in Known : \E n \in Fresh : InsertBefore(s, n)
  \/ \E s \in Known : \E n \in Fresh : InsertAfter(s, n)
  \/ \E n \in Known : Delete(n)
  \/ \E o \in Known : \E p \in Known :
        created + 2 * CloneSize(o) <= MaxTreeNodes /\ CloneAsChild(o, p)
  \/ \E o \in Known : \E s \in Known :
        created + CloneSize(o) <= MaxTreeNodes /\ CloneAsSiblingBefore(o, s)
  \/ \E o \in Known : \E s \in Known :
        created + CloneSize(o) <= MaxTreeNodes /\ CloneAsSiblingAfter(o, s)
  \/ \E f \in DOMAIN nodeMap : ToggleNode(f)

SpecReinsert == Init /\ [][NextReinsert]_vars

\* SpecNotify: every operation of the service, with an observer that
\* subscribes to data$ at some point.
NextNotify ==
  \/ Subscribe
  \/ \E n \in Fresh \cup Range(data) : SetData(<<n>>)
  \/ SetData(<<>>)
  \/ \E p \in Known : \E n \in Fresh : InsertChild(p, n)
  \/ \E s \in Known : \E n \in Fresh : InsertBefore(s, n)
  \/ \E s \in Known : \E n \in Fresh : InsertAfter(s, n)
  \/ \E n \in Known : Delete(n)
  \/ \E o \in Known : \E p \in Known :
        created + 2 * CloneSize(o) <= MaxTreeNodes /\ CloneAsChild(o, p)
  \/ \E o \in Known : \E s \in Known :
        created + CloneSize(o) <= MaxTreeNodes /\ CloneAsSiblingBefore(o, s)
  \/ \E o \in Known : \E s \in Known :
        created + CloneSize(o) <= MaxTreeNodes /\ CloneAsSiblingAfter(o, s)
  \/ \E n \in Known : GetParent(n)
  \/ \E n \in Known : GetNodePath(n)
  \/ \E n \in Known : IsParentExpanded(n)
  \/ \E n \in Known : \E m \in Known : IsSibling(n, m)
  \/ \E f \in DOMAIN nodeMap : ToggleNode(f)
  \/ \E k \in 0..(MaxTreeNodes - 1) : ExpandLevel(k)

SpecNotify == Init /\ [][NextNotify]_vars

\* ------------------------------------------------------------------ claims
\* The structure as the claims speak of it, stated without the searches.
InTree == UNION {Reach(children, childrenSet, r) : r \in Range(data)}

\* Nodes of the tree whose children sequence directly contains n.
ParentsOf(n) == {p \in InTree : n \in Range(childrenOf(children, childrenSet, p))}

\* Nodes with n in their subtree, n excluded.
Ancestors(n) == {a \in Nodes \ {n} : n \in Reach(children, childrenSet, a)}

Flattened == Range(dataNodes)

\* The collection an owner holds (0: the root collection), before and
\* after a step.
Coll(owner) == IF owner = Null THEN data ELSE childrenOf(children, childrenSet, owner)
CollAfter(owner) == IF owner = Null THEN data' ELSE childrenOf(children', childrenSet', owner)

OthersUnchanged(owner) ==
  /\ \A q \in ({Null} \cup Nodes) \ {owner} : CollAfter(q) = Coll(q)
  /\ \A q \in Nodes \ {owner} : (q \in childrenSet') = (q \in childrenSet)

\* Collections of the tree that directly contain n.
OwnersOf(n) == (IF n \in Range(data) THEN {Null} ELSE {}) \cup ParentsOf(n)

\* C1: getParent(N) returns the node whose children sequence directly
\* contains N when N is some node's child, and null when N is a root-level
\* entry or is nowhere in the structure.
C1_GetParent ==
  last.op = "getParent" =>
    IF ParentsOf(last.a) # {} THEN ParentsOf(last.a) = {last.ret}
    ELSE last.ret = Null

C1_Witness ==
  /\ last.op = "getParent"
  /\ last.ret # Null
  /\ ParentsOf(last.ret) # {}

\* C2: for N in the tree, getNodePath(N) ends with N, each element is the
\* direct parent of the next one, and the first element is a root-level
\* entry that has no parent.
C2_GetNodePath ==
  (last.op = "getNodePath" /\ last.a \in InTree) =>
    /\ Len(last.path) >= 1
    /\ last.path[Len(last.path)] = last.a
    /\ \A i \in 1..(Len(last.path) - 1) : ParentsOf(last.path[i + 1]) = {last.path[i]}
    /\ last.path[1] \in Range(data)
    /\ ParentsOf(last.path[1]) = {}

C2_Witness ==
  /\ last.op = "getNodePath"
  /\ last.a \in InTree
  /\ Len(last.path) = 3

\* C3: each cloneAs* call returns the copy it inserted: after
\* cloneAsChild(original, parent) the returned node is the last child of
\* parent; after cloneAsSiblingBefore / After(original, sibling) it is the
\* node inserted next to sibling.
C3_CloneReturnsInserted ==
  /\ last.op = "cloneAsChild" =>
       /\ last.ret = last.b
       /\ last.a \in childrenSet
       /\ Len(children[last.a]) >= 1
       /\ children[last.a][Len(children[last.a])] = last.ret
  /\ last.op \in {"cloneAsSiblingBefore", "cloneAsSiblingAfter"} =>
       /\ last.ret = last.b
       /\ last.ret \in Range(data) \cup UNION {Range(Coll(q)) : q \in Nodes}

C5_AbsentSiblingNoOp ==
  [][ (last'.op \in {"insertBefore", "insertAfter"} /\ last'.a \notin InTree) =>
        /\ data' = data
        /\ children' = children
        /\ childrenSet' = childrenSet
    ]_vars

\* Entries of the tree in depth-first order, each with the owner of the
\* collection it sits in.
RECURSIVE entriesOf(_, _, _)
entriesOf(owner, s, i) ==
  IF i > Len(s) THEN <<>>
  ELSE <<  <<s[i], owner>>  >>
       \o entriesOf(s[i], childrenOf(children, childrenSet, s[i]), 1)
       \o entriesOf(owner, s, i + 1)

FirstOwner(n) ==
  LET es == entriesOf(Null, data, 1)
      k == CHOOSE i \in 1..Len(es) :
             es[i][1] = n /\ \A j \in 1..(i - 1) : es[j][1] # n
  IN es[k][2]

\* C6: delete(node) removes the first occurrence (depth-first) of node from
\* the collection that holds it and changes nothing else, also when the
\* node sits under more than one parent; a node that is nowhere in the tree
\* leaves the tree unchanged.
C6_DeleteRemovesOne ==
  [][ last'.op = "delete" =>
        IF OwnersOf(last'.a) = {}
          THEN /\ data' = data
               /\ children' = children
               /\ childrenSet' = childrenSet
          ELSE LET owner == FirstOwner(last'.a)
               IN /\ CollAfter(owner) = spliceRemove(Coll(owner),
                                                     indexOf(Coll(owner), last'.a))
                  /\ OthersUnchanged(owner)
                  /\ childrenSet' = childrenSet
    ]_vars

\* C7: toggleNode(f) on a collapsed flat node of the flattened sequence
\* leaves f and the flat nodes of f's ancestors expanded and every other
\* node of the flattened sequence collapsed.
C7_ToggleAccordion ==
  (last.op = "toggleNode" /\ ~last.wasExpanded /\ last.a \in Flattened) =>
    /\ ({last.a} \cup Ancestors(last.a)) \subseteq expanded
    /\ \A n \in Flattened \ ({last.a} \cup Ancestors(last.a)) : n \notin expanded

C7_Witness ==
  /\ last.op = "toggleNode" /\ ~last.wasExpanded /\ last.a \in Flattened
  /\ last.pre = {}
  /\ Ancestors(last.a) # {}
  /\ Flattened \ ({last.a} \cup Ancestors(last.a)) # {}

\* C8: toggleNode(f) on an expanded flat node collapses f and nothing
\* else; after two calls in a row on a collapsed f, f is collapsed and all
\* its ancestors are expanded.
C8_ToggleCollapse ==
  [][ /\ (last'.op = "toggleNode" /\ last'.wasExpanded) =>
           /\ last'.a \notin expanded'
           /\ \A n \in Nodes \ {last'.a} : (n \in expanded') = (n \in expanded)
      /\ (last'.op = "toggleNode" /\ last'.again) =>
           /\ last'.a \notin expanded'
           /\ Ancestors(last'.a) \subseteq expanded'
    ]_vars

C8_Witness ==
  /\ last.op = "toggleNode" /\ last.again
  /\ Cardinality(Ancestors(last.a)) = 2
  /\ expanded = Ancestors(last.a)

\* C9 as claimed: after two calls in a row on a collapsed node every
\* ancestor has the state it had before the first call.
C9_AncestorsRestored ==
  (last.op = "toggleNode" /\ last.again) =>
    \A a \in Ancestors(last.a) : (a \in expanded) = (a \in last.pre)

\* C9, amended: after two calls in a row on a collapsed node every ancestor
\* is expanded, whatever it was before the first call (so only the
\* ancestors that were expanded before have their former state); the node
\* and every flattened node off its path are collapsed.
C9_AncestorsExpanded ==
  (last.op = "toggleNode" /\ last.again) =>
    /\ Ancestors(last.a) \subseteq expanded
    /\ \A a \in Ancestors(last.a) :
         ((a \in expanded) = (a \in last.pre)) = (a \in last.pre)
    /\ last.a \notin expanded
    /\ \A n \in Flattened \ Ancestors(last.a) : n \notin expanded

C9_Witness ==
  /\ last.op = "toggleNode" /\ last.again
  /\ Ancestors(last.a) # {}
  /\ last.pre = {}
  /\ Flattened \ ({last.a} \cup Ancestors(last.a)) # {}

\* C10: expandLevel(k) expands every flattened node of level k, leaves the
\* expansion state of every other node as it was, and leaves the tree
\* unchanged.
C10_ExpandLevelAdditive ==
  [][ last'.op = "expandLevel" =>
        /\ \A n \in Flattened :
             Cardinality(Ancestors(n)) = last'.k => n \in expanded'
        /\ \A n \in Nodes :
             (n \notin Flattened \/ Cardinality(Ancestors(n)) # last'.k) =>
               ((n \in expanded') = (n \in expanded))
        /\ UNCHANGED <<data, children, childrenSet, dataNodes>>
    ]_vars

C10_Witness ==
  /\ last.op = "expandLevel" /\ last.k = 1
  /\ \E n \in Flattened : Cardinality(Ancestors(n)) = 1 /\ n \in expanded
  /\ \E n \in Flattened : Cardinality(Ancestors(n)) = 0 /\ n \notin expanded
  /\ \E n \in Flattened : Cardinality(Ancestors(n)) = 2 /\ n \notin expanded

\* C11: every mutation call (data assignment, insertChild, insertBefore,
\* insertAfter, delete, cloneAs*) notifies exactly once, also when it changed
\* nothing; the observer's callback is handed the root collection as it is
\* after the mutation and finds the flattened sequence already rebuilt from
\* it; a query, an expansion operation or subscribing notifies nothing, and
\* an observer that has not subscribed receives nothing.
Mutations ==
  {"setData", "insertChild", "insertBefore", "insertAfter", "delete",
   "cloneAsChild", "cloneAsSiblingBefore", "cloneAsSiblingAfter"}

C11_OneNotification ==
  LET calls == flattenNodes(data, children, childrenSet)
  IN /\ last.op \in Mutations =>
          /\ last.emitted = <<data>>
          /\ dataNodes = [i \in 1..Len(calls) |-> calls[i][1]]
          /\ subscribed => received = <<[data |-> data, dataNodes |-> dataNodes]>>
          /\ ~subscribed => received = <<>>
     /\ last.op \notin Mutations => last.emitted = <<>> /\ received = <<>>

\* A delete of a node that never was in the tree (the clone cloneAsChild
\* hands back) notified the observer, with a non-empty tree.
C11_Witness ==
  /\ last.op = "delete"
  /\ last.a \notin DOMAIN nodeMap
  /\ subscribed
  /\ Len(received) = 1
  /\ Len(received[1].dataNodes) > 1

\* C12: with every inserted node a new object, every node occurs at most
\* once over the root collection and all children sequences, no node is
\* below itself, and the copy a cloneAs* call inserted is made of the node
\* objects that call created and of no other (so nothing the original
\* holds is below the copy).
CloneOps == {"cloneAsChild", "cloneAsSiblingBefore", "cloneAsSiblingAfter"}

Occurrences(n) ==
  Cardinality({i \in 1..Len(data) : data[i] = n})
  + Cardinality({<<p, i>> \in Nodes \X (1..MaxLen + 1) :
                   /\ i <= Len(childrenOf(children, childrenSet, p))
                   /\ childrenOf(children, childrenSet, p)[i] = n})

C12_ExclusiveOwnership ==
  /\ \A n \in Nodes : Occurrences(n) <= 1
  /\ \A n \in Nodes : \A c \in Range(childrenOf(children, childrenSet, n)) :
       n \notin Reach(children, childrenSet, c)
  /\ last.op \in CloneOps =>
       LET copy == Reach(children, childrenSet, last.b)
       IN copy = (created - Cardinality(copy) + 1)..created

\* A node with a child was cloned, and the copy is in the tree next to it.
C12_Witness ==
  /\ last.op \in CloneOps
  /\ last.b \in InTree
  /\ Cardinality(Reach(children, childrenSet, last.b)) > 1
  /\ \E n \in InTree \ Reach(children, childrenSet, last.b) :
       Cardinality(Reach(children, childrenSet, n)) > 1

\* C13: the flattened sequence holds exactly one FlatNode for each node in
\* the tree; the level of each is the depth of its node (the number of its
\* ancestors, 0 at root level) and it is expandable exactly when its node's
\* children sequence is non-empty, so hasChildren and isRoot tell what the
\* tree is now.
C13_FlatMirrorsTree ==
  /\ Range(dataNodes) = InTree
  /\ Len(dataNodes) = Cardinality(InTree)
  /\ \A n \in InTree :
       /\ n \in DOMAIN nodeMap
       /\ nodeMap[n].level = Cardinality(Ancestors(n))
       /\ nodeMap[n].expandable = (Len(childrenOf(children, childrenSet, n)) > 0)
       /\ hasChildren(nodeMap, n) = (\E c \in InTree : n \in ParentsOf(c))
       /\ isRoot(nodeMap, n) = (n \in Range(data))

\* A delete took the last child of a node below root level, which stopped
\* being expandable, while its own parent (a former leaf) is expandable.
C13_Witness ==
  /\ last.op = "delete"
  /\ \E n \in InTree :
       /\ n \in childrenSet
       /\ Len(children[n]) = 0
       /\ ~hasChildren(nodeMap, n)
       /\ ~isRoot(nodeMap, n)
       /\ \E p \in ParentsOf(n) : hasChildren(nodeMap, p) /\ isRoot(nodeMap, p)

\* C14: the map never loses an entry and never holds a second FlatNode
\* object for a node: getFlatNode gives the same object for a node before
\* and after every call; and a mutation (insert, delete, clone, data
\* assignment) leaves the expansion state of every FlatNode as it was, so
\* a node that stays in the tree, and one deleted and inserted again, has
\* the FlatNode and the expansion state it had.
C14_FlatNodesKept ==
  [][/\ DOMAIN nodeMap \subseteq DOMAIN nodeMap'
     /\ \A n \in DOMAIN nodeMap :
          getFlatNode(nodeMap', n) = getFlatNode(nodeMap, n)
     /\ \A n \in DOMAIN nodeMap' : nodeMap'[n].object = 1
     /\ last'.op \in Mutations =>
          \A n \in DOMAIN nodeMap : isExpanded(expanded', n) = isExpanded(expanded, n)
    ]_vars

\* A node that was expanded, deleted and inserted again under another
\* node is in the tree, expanded, next to a collapsed node.
C14_Witness ==
  /\ last.op = "insertChild"
  /\ last.b \in InTree
  /\ \E p \in ParentsOf(last.b) : isExpanded(expanded, p)
  /\ isExpanded(expanded, last.b)
  /\ \E n \in InTree : ~isExpanded(expanded, n)
====
